---- MODULE Spec2Model ----
(***************************************************************************)
(* Model of steam_universal_layout.py: the stand-alone Steam Controller    *)
(* keyboard/mouse mapper.                                                  *)
(*                                                                         *)
(* Conventions.                                                            *)
(*  - Axis values, thresholds and the deadzone are floats in the source;   *)
(*    they are modelled as integers in hundredths (0.45 is 45).  The       *)
(*    sensitivity is an integer multiplier (18.0 is 18).  For every value  *)
(*    in hundredths and the sensitivities used here the float product      *)
(*    truncates to the same integer as the exact product.                  *)
(*  - A latch map (key_state, mouse_state, button_state) is a Python dict  *)
(*    that is only ever read through the truth value of dict.get(k) or of  *)
(*    its stored value; an absent entry and a False entry are              *)
(*    indistinguishable to the program.  A map is modelled as the function *)
(*    k |-> bool(map.get(k)).                                              *)
(*  - Text (key names) is a sequence of one-character strings.             *)
(*  - host and events model the injection sink (pynput): host[i] is TRUE   *)
(*    while virtual input i is down on the host, events is the sequence of *)
(*    calls the latest step made on the sink.  reads is the sequence of    *)
(*    values the latest step obtained from the controller.                 *)
(***************************************************************************)
EXTENDS Integers, Sequences, FiniteSets, TLC

VARIABLES
    pc,               \* position of the process in main / _run_mapper
    args,             \* the parsed command line (Namespace)
    deps,             \* environment: pygame and pynput are installed
    count,            \* environment: pygame.joystick.get_count()
    layout,           \* _run_mapper: layout
    exit_button,      \* _run_mapper: exit_button
    button_bindings,  \* _run_mapper: button_bindings (index -> key)
    button_order,     \* iteration order of button_bindings.items()
    left_axis, right_axis, left_trigger, right_trigger,
    joystick_open,    \* the joystick handle is initialised and not yet quit
    key_state, mouse_state, button_state,
    button_iter,      \* position of the for loop over button_bindings
    reads,            \* values read from the controller by the latest step
    events,           \* sink calls made by the latest step
    host,             \* sink: which virtual inputs are down on the host
    balance,          \* sink: press calls minus release calls, per virtual input
    sink_called,      \* sink: some press, release or move call has been made
    source_read,      \* controller: some get_axis / get_button call has been made
    error,            \* the exception that ended (or is ending) the run
    exit_status,      \* exit status of the process, -1 while it runs
    last_read,        \* controller: the latest value read of each bound button
    name,             \* _resolve_key: argument
    resolved          \* _resolve_key: outcome

cfgVars == <<layout, exit_button, button_bindings, button_order,
             left_axis, right_axis, left_trigger, right_trigger>>
envVars == <<args, deps, count>>
latchVars == <<key_state, mouse_state, button_state>>
keyVars == <<name, resolved>>
obsVars == <<sink_called, source_read>>
vars == <<pc, envVars, cfgVars, joystick_open, latchVars, button_iter,
          reads, events, host, balance, obsVars, error, exit_status, last_read,
          keyVars>>

----------------------------------------------------------------------------
(* Text *)

Str1(c) == <<c>>

UpperLower ==
    [c \in {"A","B","C","D","E","F","G","H","I","J","K","L","M",
            "N","O","P","Q","R","S","T","U","V","W","X","Y","Z"} |->
        CASE c = "A" -> "a" [] c = "B" -> "b" [] c = "C" -> "c" [] c = "D" -> "d"
          [] c = "E" -> "e" [] c = "F" -> "f" [] c = "G" -> "g" [] c = "H" -> "h"
          [] c = "I" -> "i" [] c = "J" -> "j" [] c = "K" -> "k" [] c = "L" -> "l"
          [] c = "M" -> "m" [] c = "N" -> "n" [] c = "O" -> "o" [] c = "P" -> "p"
          [] c = "Q" -> "q" [] c = "R" -> "r" [] c = "S" -> "s" [] c = "T" -> "t"
          [] c = "U" -> "u" [] c = "V" -> "v" [] c = "W" -> "w" [] c = "X" -> "x"
          [] c = "Y" -> "y" [] c = "Z" -> "z"]

\* str.lower(), one character
lower_char(c) == IF c \in DOMAIN UpperLower THEN UpperLower[c] ELSE c

\* str.lower()
lower(text) == [i \in 1..Len(text) |-> lower_char(text[i])]

----------------------------------------------------------------------------
(* Virtual inputs *)

\* pynput.keyboard.Key.<id>
Key(id) == [kind |-> "Key", id |-> id]

\* pynput.keyboard.KeyCode.from_char(c)
KeyCode_from_char(c) == [kind |-> "KeyCode", id |-> c]

\* pynput.mouse.Button.<id>
Button(id) == [kind |-> "Button", id |-> id]

NoKey == [kind |-> "none", id |-> "none"]

SPECIAL_KEYS ==
    (<<"s","p","a","c","e">> :> "space")
 @@ (<<"e","s","c">> :> "esc")
 @@ (<<"e","s","c","a","p","e">> :> "esc")
 @@ (<<"e","n","t","e","r">> :> "enter")
 @@ (<<"r","e","t","u","r","n">> :> "enter")
 @@ (<<"t","a","b">> :> "tab")
 @@ (<<"s","h","i","f","t">> :> "shift")
 @@ (<<"c","t","r","l">> :> "ctrl")
 @@ (<<"c","o","n","t","r","o","l">> :> "ctrl")
 @@ (<<"a","l","t">> :> "alt")
 @@ (<<"l","e","f","t">> :> "left")
 @@ (<<"r","i","g","h","t">> :> "right")
 @@ (<<"u","p">> :> "up")
 @@ (<<"d","o","w","n">> :> "down")

\* The outcome of a call: the key returned, or the ValueError raised with the
\* text its message names.
Returned(key) == [ok |-> TRUE, key |-> key, text |-> <<>>]
Raised(text) == [ok |-> FALSE, key |-> NoKey, text |-> text]
NotCalled == [ok |-> FALSE, key |-> NoKey, text |-> <<>>]

\* _resolve_key looking the text up as written, without lower()
_resolve_key_case_sensitive(text) ==
    IF text \in DOMAIN SPECIAL_KEYS
    THEN Returned(Key(SPECIAL_KEYS[text]))
    ELSE IF Len(text) = 1
         THEN Returned(KeyCode_from_char(text[1]))
         ELSE Raised(text)

\* _resolve_key that lower-cases the single character it returns
_resolve_key_lowered(text) ==
    IF lower(text) \in DOMAIN SPECIAL_KEYS
    THEN Returned(Key(SPECIAL_KEYS[lower(text)]))
    ELSE IF Len(text) = 1
         THEN Returned(KeyCode_from_char(lower(text)[1]))
         ELSE Raised(lower(text))

_resolve_key(text) ==
    IF lower(text) \in DOMAIN SPECIAL_KEYS
    THEN Returned(Key(SPECIAL_KEYS[lower(text)]))
    ELSE IF Len(text) = 1
         THEN Returned(KeyCode_from_char(text[1]))
         ELSE Raised(text)

key_bindings ==
    [w |-> _resolve_key(Str1("w")).key,
     a |-> _resolve_key(Str1("a")).key,
     s |-> _resolve_key(Str1("s")).key,
     d |-> _resolve_key(Str1("d")).key,
     space |-> _resolve_key(<<"s","p","a","c","e">>).key,
     escape |-> _resolve_key(<<"e","s","c","a","p","e">>).key,
     r |-> _resolve_key(Str1("r")).key,
     e |-> _resolve_key(Str1("e")).key]

AxisKeys == {key_bindings.a, key_bindings.d, key_bindings.w, key_bindings.s}
ButtonKeys == {key_bindings.space, key_bindings.escape, key_bindings.r, key_bindings.e}
MouseButtons == {Button("left"), Button("right")}
VirtualInputs == AxisKeys \cup ButtonKeys \cup MouseButtons

----------------------------------------------------------------------------
(* Layout: a JSON object, modelled as the set of paths present in it and   *)
(* the integer stored at each leaf.                                        *)

InnerPaths == {<<"axes">>, <<"axes","left_pad">>, <<"axes","right_pad">>,
               <<"triggers">>, <<"buttons">>}
ButtonRoles == {"a","b","x","y","lb","rb","back","start"}
LeafPaths ==
    {<<"axes","left_pad","x">>, <<"axes","left_pad","y">>,
     <<"axes","right_pad","x">>, <<"axes","right_pad","y">>,
     <<"triggers","left">>, <<"triggers","right">>, <<"exit_button">>}
    \cup {<<"buttons", b>> : b \in ButtonRoles}
AllPaths == InnerPaths \cup LeafPaths

DEFAULT_LAYOUT ==
    [present |-> AllPaths,
     index |->
        (<<"axes","left_pad","x">> :> 0) @@ (<<"axes","left_pad","y">> :> 1)
     @@ (<<"axes","right_pad","x">> :> 2) @@ (<<"axes","right_pad","y">> :> 3)
     @@ (<<"triggers","left">> :> 4) @@ (<<"triggers","right">> :> 5)
     @@ (<<"buttons","a">> :> 0) @@ (<<"buttons","b">> :> 1)
     @@ (<<"buttons","x">> :> 2) @@ (<<"buttons","y">> :> 3)
     @@ (<<"buttons","lb">> :> 4) @@ (<<"buttons","rb">> :> 5)
     @@ (<<"buttons","back">> :> 6) @@ (<<"buttons","start">> :> 7)
     @@ (<<"exit_button">> :> 6)]

NoLayout == [present |-> {}, index |-> DEFAULT_LAYOUT.index]

\* d[k] for a key path: the lookup raises KeyError unless the path is present
HasKey(l, path) == path \in l.present

\* d.get(k) with the default dropped (0 stands for the missing value)
Get_no_default(l, path, default) == IF path \in l.present THEN l.index[path] ELSE 0

\* d.get(k, default)
Get(l, path, default) == IF path \in l.present THEN l.index[path] ELSE default

\* args.layout: None, or the path of a file; a file is identified with its
\* content (readable = it opens and parses as JSON).
NoPath == [given |-> FALSE, readable |-> FALSE, data |-> NoLayout]
File(l) == [given |-> TRUE, readable |-> TRUE, data |-> l]
BadFile == [given |-> TRUE, readable |-> FALSE, data |-> NoLayout]

_load_layout(path) == IF ~path.given THEN DEFAULT_LAYOUT ELSE path.data

----------------------------------------------------------------------------
(* Injection sink (pynput keyboard / mouse controllers) *)

NoInput == NoKey

\* keyboard.press(key), mouse.press(button)
Down(input) == [op |-> "press", input |-> input, dx |-> 0, dy |-> 0]

\* keyboard.release(key), mouse.release(button)
Up(input) == [op |-> "release", input |-> input, dx |-> 0, dy |-> 0]

\* mouse.move(dx, dy)
Move(dx, dy) == [op |-> "move", input |-> NoInput, dx |-> dx, dy |-> dy]

\* The host after one sink call
Deliver1(h, ev) ==
    IF ev.op = "press" THEN [h EXCEPT ![ev.input] = TRUE]
    ELSE IF ev.op = "release" THEN [h EXCEPT ![ev.input] = FALSE]
    ELSE h

RECURSIVE Deliver(_, _)
Deliver(h, evs) ==
    IF evs = <<>> THEN h ELSE Deliver(Deliver1(h, Head(evs)), Tail(evs))

\* The press calls minus the release calls after one more sink call
Tally1(b, ev) ==
    IF ev.op = "press" THEN [b EXCEPT ![ev.input] = @ + 1]
    ELSE IF ev.op = "release" THEN [b EXCEPT ![ev.input] = @ - 1]
    ELSE b

RECURSIVE Tally(_, _)
Tally(b, evs) ==
    IF evs = <<>> THEN b ELSE Tally(Tally1(b, Head(evs)), Tail(evs))

\* The latest step made the sink calls evs, in that order
Emit(evs) ==
    /\ events' = evs
    /\ host' = Deliver(host, evs)
    /\ balance' = Tally(balance, evs)
    /\ sink_called' = (sink_called \/ evs # <<>>)

----------------------------------------------------------------------------
(* Latch helpers.  st = [pressed |-> the latch map, sent |-> the sink      *)
(* calls made so far by the step].                                         *)

\* _press without the latch test: a down event on every call
_press_unlatched(st, key) ==
    [pressed |-> [st.pressed EXCEPT ![key] = TRUE],
     sent |-> Append(st.sent, Down(key))]

_press(st, key) ==
    IF ~st.pressed[key]
    THEN [pressed |-> [st.pressed EXCEPT ![key] = TRUE],
          sent |-> Append(st.sent, Down(key))]
    ELSE st

\* _release that clears the whole map (pressed.clear()) on a release
_release_clear(st, key) ==
    IF st.pressed[key]
    THEN [pressed |-> [k \in DOMAIN st.pressed |-> FALSE],
          sent |-> Append(st.sent, Up(key))]
    ELSE st

\* _release that makes the release call and leaves the latch entry true
_release_keeps_latch(st, key) ==
    IF st.pressed[key]
    THEN [pressed |-> st.pressed, sent |-> Append(st.sent, Up(key))]
    ELSE st

_release(st, key) ==
    IF st.pressed[key]
    THEN [pressed |-> [st.pressed EXCEPT ![key] = FALSE],
          sent |-> Append(st.sent, Up(key))]
    ELSE st

\* _update_axis_keys pressing the wanted key without releasing the opposite
\* one
_update_axis_keys_no_release(value, negative_key, positive_key, st, threshold) ==
    IF value <= -threshold
    THEN _press(st, negative_key)
    ELSE IF value >= threshold
         THEN _press(st, positive_key)
         ELSE _release(_release(st, negative_key), positive_key)

\* _update_axis_keys releasing the opposite key before pressing the wanted
\* one
_update_axis_keys_release_first(value, negative_key, positive_key, st, threshold) ==
    IF value <= -threshold
    THEN _press(_release(st, positive_key), negative_key)
    ELSE IF value >= threshold
         THEN _press(_release(st, negative_key), positive_key)
         ELSE _release(_release(st, negative_key), positive_key)

\* _update_axis_keys with strict comparisons: a value exactly at the
\* threshold presses nothing
_update_axis_keys_strict(value, negative_key, positive_key, st, threshold) ==
    IF value < -threshold
    THEN _release(_press(st, negative_key), positive_key)
    ELSE IF value > threshold
         THEN _release(_press(st, positive_key), negative_key)
         ELSE _release(_release(st, negative_key), positive_key)

_update_axis_keys(value, negative_key, positive_key, st, threshold) ==
    IF value <= -threshold
    THEN _release(_press(st, negative_key), positive_key)
    ELSE IF value >= threshold
         THEN _release(_press(st, positive_key), negative_key)
         ELSE _release(_release(st, negative_key), positive_key)

\* _update_trigger with a strict comparison
_update_trigger_strict(value, st, button, threshold) ==
    IF value > threshold
    THEN IF ~st.pressed[button]
         THEN [pressed |-> [st.pressed EXCEPT ![button] = TRUE],
               sent |-> Append(st.sent, Down(button))]
         ELSE st
    ELSE IF st.pressed[button]
         THEN [pressed |-> [st.pressed EXCEPT ![button] = FALSE],
               sent |-> Append(st.sent, Up(button))]
         ELSE st

_update_trigger(value, st, button, threshold) ==
    IF value >= threshold
    THEN IF ~st.pressed[button]
         THEN [pressed |-> [st.pressed EXCEPT ![button] = TRUE],
               sent |-> Append(st.sent, Down(button))]
         ELSE st
    ELSE IF st.pressed[button]
         THEN [pressed |-> [st.pressed EXCEPT ![button] = FALSE],
               sent |-> Append(st.sent, Up(button))]
         ELSE st

\* Rounding toward minus infinity (math.floor) in place of int()
int_floor(n, d) == n \div d

\* int(x) of the quotient n / d, d > 0: truncation toward zero
int(n, d) == IF n >= 0 THEN n \div d ELSE -((-n) \div d)

abs(v) == IF v >= 0 THEN v ELSE -v

\* lines 290-294: the sink calls of the look pad for one reading
mouse_look(right_x, right_y, cfg) ==
    IF abs(right_x) >= cfg.deadzone \/ abs(right_y) >= cfg.deadzone
    THEN LET dx == int(right_x * cfg.sensitivity, 100)
             dy == int(right_y * cfg.sensitivity, 100)
         IN IF dx # 0 \/ dy # 0 THEN <<Move(dx, dy)>> ELSE <<>>
    ELSE <<>>

\* lines 302-308: one iteration of the loop over button_bindings
\* The button handling level-triggered: a press call on every tick the
\* button reads true
button_edge_level(pressed, held, key) ==
    IF pressed THEN [held |-> TRUE, sent |-> <<Down(key)>>]
    ELSE IF held THEN [held |-> FALSE, sent |-> <<Up(key)>>]
    ELSE [held |-> held, sent |-> <<>>]

button_edge(pressed, held, key) ==
    IF pressed /\ ~held THEN [held |-> TRUE, sent |-> <<Down(key)>>]
    ELSE IF ~pressed /\ held THEN [held |-> FALSE, sent |-> <<Up(key)>>]
    ELSE [held |-> held, sent |-> <<>>]

\* The dict literal of lines 259-264: a later entry with the same index
\* replaces the value of an earlier one
make_button_bindings(buttons) ==
    LET ia == Get(buttons, <<"buttons","a">>, 0)
        ib == Get(buttons, <<"buttons","b">>, 1)
        ix == Get(buttons, <<"buttons","x">>, 2)
        iy == Get(buttons, <<"buttons","y">>, 3)
    IN (iy :> key_bindings.e) @@ (ix :> key_bindings.r)
       @@ (ib :> key_bindings.escape) @@ (ia :> key_bindings.space)

RECURSIVE Dedup(_)
Dedup(s) ==
    IF s = <<>> THEN <<>>
    ELSE LET front == Dedup(SubSeq(s, 1, Len(s) - 1))
             last == s[Len(s)]
         IN IF \E i \in 1..Len(front) : front[i] = last THEN front
            ELSE Append(front, last)

\* dict order: the order of first insertion
make_button_order(buttons) ==
    Dedup(<<Get(buttons, <<"buttons","a">>, 0), Get(buttons, <<"buttons","b">>, 1),
            Get(buttons, <<"buttons","x">>, 2), Get(buttons, <<"buttons","y">>, 3)>>)

\* The orders in which a dict may yield the entries in S (insertion order,
\* which depends on the history of first presses)
Orders(S) ==
    {o \in [1..Cardinality(S) -> S] : \A i, j \in 1..Cardinality(S) : i # j => o[i] # o[j]}

Held(map) == {k \in DOMAIN map : map[k]}

ReleaseAll(order) == [i \in 1..Len(order) |-> Up(order[i])]

----------------------------------------------------------------------------
(* Inputs *)

\* Readings of the movement pad axes, around the thresholds 0.45 and 0
MoveValues == {-45, -44, 0, 45, 46}

\* Readings of the look pad axes, around the deadzone 0.08
LookValues == {-20, 0, 5, 8, 20}

\* Readings of the trigger axes, around the threshold 0.5
TriggerValues == {30, 49, 50}

Without(l, path) ==
    [l EXCEPT !.present =
        {q \in @ : ~(Len(path) <= Len(q) /\ SubSeq(q, 1, Len(path)) = path)}]

\* A complete override file; its indices differ from the defaults where the
\* code substitutes a default, and are pairwise distinct per kind
FullOverride ==
    [present |-> AllPaths,
     index |->
        (<<"axes","left_pad","x">> :> 1) @@ (<<"axes","left_pad","y">> :> 0)
     @@ (<<"axes","right_pad","x">> :> 3) @@ (<<"axes","right_pad","y">> :> 2)
     @@ (<<"triggers","left">> :> 5) @@ (<<"triggers","right">> :> 4)
     @@ (<<"buttons","a">> :> 10) @@ (<<"buttons","b">> :> 11)
     @@ (<<"buttons","x">> :> 12) @@ (<<"buttons","y">> :> 13)
     @@ (<<"buttons","lb">> :> 14) @@ (<<"buttons","rb">> :> 15)
     @@ (<<"buttons","back">> :> 16) @@ (<<"buttons","start">> :> 17)
     @@ (<<"exit_button">> :> 16)]

ArgSets(lists, indexes, layouts, sensitivities, thresholds) ==
    [list_joysticks : lists, joystick_index : indexes, layout : layouts,
     mouse_sensitivity : sensitivities, mouse_deadzone : {8},
     dpad_threshold : thresholds, trigger_threshold : {50}, poll_interval : {1}]

NoAxis == [x_axis |-> 0, y_axis |-> 0, threshold |-> 0]
NoMouseAxis == [x_axis |-> 0, y_axis |-> 0, sensitivity |-> 0, deadzone |-> 0]
NoTrigger == [axis |-> 0, threshold |-> 0, button |-> "none"]
EmptyMap == [k \in {} |-> FALSE]

InitWith(start, argset, depset, counts, names) ==
    /\ pc = start
    /\ args \in argset
    /\ deps \in depset
    /\ count \in counts
    /\ layout = NoLayout
    /\ exit_button = 0
    /\ button_bindings = EmptyMap
    /\ button_order = <<>>
    /\ left_axis = NoAxis
    /\ right_axis = NoMouseAxis
    /\ left_trigger = NoTrigger
    /\ right_trigger = NoTrigger
    /\ joystick_open = FALSE
    /\ key_state = [k \in AxisKeys |-> FALSE]
    /\ mouse_state = [b \in MouseButtons |-> FALSE]
    /\ button_state = EmptyMap
    /\ button_iter = 0
    /\ reads = <<>>
    /\ events = <<>>
    /\ host = [i \in VirtualInputs |-> FALSE]
    /\ balance = [i \in VirtualInputs |-> 0]
    /\ sink_called = FALSE
    /\ source_read = FALSE
    /\ error = "none"
    /\ exit_status = -1
    /\ last_read = EmptyMap
    /\ name \in names
    /\ resolved = NotCalled

\* Command lines of the whole mapper: the default thresholds and sensitivity,
\* and each of --dpad-threshold 0 and --mouse-sensitivity 5 on its own
MainArgs ==
    {a \in ArgSets(BOOLEAN, {0, 1},
                   {NoPath, BadFile,
                    File(Without(FullOverride, <<"triggers">>)),
                    File(Without(FullOverride, <<"axes","left_pad","x">>))},
                   {18, 5}, {45, 0}) :
        a.mouse_sensitivity = 18 \/ a.dpad_threshold = 45}

Init == InitWith("main", MainArgs, BOOLEAN, {0, 1}, {<<>>})

----------------------------------------------------------------------------
(* Startup *)

\* The interpreter running main() with every exception swallowed
sys_exit_status_swallowed(e) == 0

\* The exit status the interpreter gives the process when main() ends with
\* e: 0 for a normal return, 1 for SystemExit with a message and for an
\* uncaught exception, 130 for an uncaught KeyboardInterrupt
sys_exit_status(e) ==
    IF e = "none" THEN 0
    ELSE IF e = "KeyboardInterrupt" THEN 130
    ELSE 1

\* The run ends with the exception e before the polling loop is entered
Abort(e) ==
    /\ pc' = "stopped"
    /\ error' = e
    /\ exit_status' = sys_exit_status(e)
    /\ UNCHANGED <<latchVars, button_iter, reads, events, host, balance, obsVars, last_read>>

\* main, lines 389-391, and _list_joysticks
ListJoysticks ==
    /\ pc = "main"
    /\ args.list_joysticks
    /\ IF deps THEN Abort("none") ELSE Abort("MissingDependency")
    /\ UNCHANGED <<envVars, cfgVars, joystick_open, keyVars>>

\* _run_mapper, lines 224-230
LoadLayout ==
    /\ pc = "main"
    /\ ~args.list_joysticks
    /\ IF ~deps
       THEN Abort("MissingDependency") /\ UNCHANGED cfgVars
       ELSE IF args.layout.given /\ ~args.layout.readable
       THEN Abort("LayoutFileError") /\ UNCHANGED cfgVars
       ELSE LET l == _load_layout(args.layout)
            IN /\ layout' = l
               /\ IF /\ HasKey(l, <<"axes">>)
                     /\ HasKey(l, <<"triggers">>)
                     /\ HasKey(l, <<"buttons">>)
                  THEN /\ exit_button' = Get(l, <<"exit_button">>, 6)
                       /\ pc' = "open_controller"
                       /\ UNCHANGED <<error, exit_status, last_read, latchVars, button_iter, reads,
                                      events, host, balance, obsVars>>
                  ELSE Abort("KeyError") /\ UNCHANGED exit_button
               /\ UNCHANGED <<button_bindings, button_order, left_axis, right_axis,
                              left_trigger, right_trigger>>
    /\ UNCHANGED <<envVars, joystick_open, keyVars>>

\* OpenController with the range test off by one (index > count)
OpenController_off_by_one ==
    /\ pc = "open_controller"
    /\ IF count = 0
       THEN Abort("NoControllersDetected") /\ UNCHANGED joystick_open
       ELSE IF args.joystick_index > count
       THEN Abort("JoystickIndexOutOfRange") /\ UNCHANGED joystick_open
       ELSE /\ joystick_open' = TRUE
            /\ pc' = "build_bindings"
            /\ UNCHANGED <<error, exit_status, last_read, latchVars, button_iter, reads,
                                      events, host, balance, obsVars>>
    /\ UNCHANGED <<envVars, cfgVars, keyVars>>

\* _run_mapper, lines 232-243
OpenController ==
    /\ pc = "open_controller"
    /\ IF count = 0
       THEN Abort("NoControllersDetected") /\ UNCHANGED joystick_open
       ELSE IF args.joystick_index >= count
       THEN Abort("JoystickIndexOutOfRange") /\ UNCHANGED joystick_open
       ELSE /\ joystick_open' = TRUE
            /\ pc' = "build_bindings"
            /\ UNCHANGED <<error, exit_status, last_read, latchVars, button_iter, reads,
                                      events, host, balance, obsVars>>
    /\ UNCHANGED <<envVars, cfgVars, keyVars>>

\* _run_mapper, lines 245-277
BuildBindings ==
    /\ pc = "build_bindings"
    /\ button_bindings' = make_button_bindings(layout)
    /\ button_order' = make_button_order(layout)
    /\ IF /\ HasKey(layout, <<"axes","left_pad">>)
          /\ HasKey(layout, <<"axes","left_pad","x">>)
          /\ HasKey(layout, <<"axes","left_pad","y">>)
          /\ HasKey(layout, <<"axes","right_pad">>)
          /\ HasKey(layout, <<"axes","right_pad","x">>)
          /\ HasKey(layout, <<"axes","right_pad","y">>)
          /\ HasKey(layout, <<"triggers","left">>)
          /\ HasKey(layout, <<"triggers","right">>)
       THEN /\ left_axis' = [x_axis |-> layout.index[<<"axes","left_pad","x">>],
                             y_axis |-> layout.index[<<"axes","left_pad","y">>],
                             threshold |-> args.dpad_threshold]
            /\ right_axis' = [x_axis |-> layout.index[<<"axes","right_pad","x">>],
                              y_axis |-> layout.index[<<"axes","right_pad","y">>],
                              sensitivity |-> args.mouse_sensitivity,
                              deadzone |-> args.mouse_deadzone]
            /\ left_trigger' = [axis |-> layout.index[<<"triggers","left">>],
                                threshold |-> args.trigger_threshold, button |-> "left"]
            /\ right_trigger' = [axis |-> layout.index[<<"triggers","right">>],
                                 threshold |-> args.trigger_threshold, button |-> "right"]
            /\ key_state' = [k \in AxisKeys |-> FALSE]
            /\ mouse_state' = [b \in MouseButtons |-> FALSE]
            /\ button_state' = [i \in DOMAIN make_button_bindings(layout) |-> FALSE]
            /\ last_read' = [i \in DOMAIN make_button_bindings(layout) |-> FALSE]
            /\ pc' = "left_pad"
            /\ UNCHANGED <<error, exit_status, button_iter, reads, events, host, balance, obsVars>>
       ELSE /\ Abort("KeyError")
            /\ UNCHANGED <<left_axis, right_axis, left_trigger, right_trigger>>
    /\ UNCHANGED <<envVars, layout, exit_button, joystick_open, keyVars>>

----------------------------------------------------------------------------
(* The polling loop.  A step runs from one read point of the controller to *)
(* the next; a read that raises transfers control to the finally block.    *)

\* A failing read that unwinds without the finally block
ReadFails_no_finally ==
    /\ pc' = "stopped"
    /\ error' = "ReadError"
    /\ exit_status' = sys_exit_status("ReadError")
    /\ reads' = <<>>
    /\ events' = <<>>
    /\ source_read' = TRUE
    /\ UNCHANGED <<latchVars, button_iter, host, balance, sink_called, last_read>>

\* joystick.get_axis / get_button raises.  Every read of a step precedes the
\* step's sink calls and latch updates, so which read of the step raised
\* makes no difference to the state.
ReadFails ==
    /\ pc' = "finally"
    /\ error' = "ReadError"
    /\ reads' = <<>>
    /\ events' = <<>>
    /\ source_read' = TRUE
    /\ UNCHANGED <<latchVars, button_iter, host, balance, sink_called, exit_status, last_read>>

\* lines 281-286
LeftPad ==
    /\ pc = "left_pad"
    /\ \/ ReadFails
       \/ \E left_x \in MoveValues, left_y \in MoveValues :
               LET s0 == [pressed |-> key_state, sent |-> <<>>]
                   s1 == _update_axis_keys(left_x, key_bindings.a, key_bindings.d,
                                           s0, left_axis.threshold)
                   s2 == _update_axis_keys(left_y, key_bindings.w, key_bindings.s,
                                           s1, left_axis.threshold)
               IN /\ key_state' = s2.pressed
                  /\ Emit(s2.sent)
                  /\ reads' = <<left_x, left_y>>
                  /\ source_read' = TRUE
                  /\ pc' = "right_pad"
                  /\ UNCHANGED <<mouse_state, button_state, button_iter, error, exit_status,
                                 last_read>>
    /\ UNCHANGED <<envVars, cfgVars, joystick_open, keyVars>>

\* lines 288-294
RightPad ==
    /\ pc = "right_pad"
    /\ \/ ReadFails
       \/ \E right_x \in LookValues, right_y \in LookValues :
               /\ Emit(mouse_look(right_x, right_y, right_axis))
               /\ reads' = <<right_x, right_y>>
               /\ source_read' = TRUE
               /\ pc' = "triggers"
               /\ UNCHANGED <<latchVars, button_iter, error, exit_status, last_read>>
    /\ UNCHANGED <<envVars, cfgVars, joystick_open, keyVars>>

\* lines 296-299
Triggers ==
    /\ pc = "triggers"
    /\ \/ ReadFails
       \/ \E left_value \in TriggerValues, right_value \in TriggerValues :
               LET s0 == [pressed |-> mouse_state, sent |-> <<>>]
                   s1 == _update_trigger(left_value, s0, Button("left"),
                                         left_trigger.threshold)
                   s2 == _update_trigger(right_value, s1, Button("right"),
                                         right_trigger.threshold)
               IN /\ mouse_state' = s2.pressed
                  /\ Emit(s2.sent)
                  /\ reads' = <<left_value, right_value>>
                  /\ source_read' = TRUE
                  /\ pc' = "buttons"
                  /\ button_iter' = 1
                  /\ UNCHANGED <<key_state, button_state, error, exit_status, last_read>>
    /\ UNCHANGED <<envVars, cfgVars, joystick_open, keyVars>>

\* lines 301-308, one iteration
Buttons ==
    /\ pc = "buttons"
    /\ \/ ReadFails
       \/ \E value \in {0, 1} :
               LET button_index == button_order[button_iter]
                   r == button_edge(value = 1, button_state[button_index],
                                    button_bindings[button_index])
               IN /\ button_state' = [button_state EXCEPT ![button_index] = r.held]
                  /\ Emit(r.sent)
                  /\ last_read' = [last_read EXCEPT ![button_index] = (value = 1)]
                  /\ reads' = <<value>>
                  /\ source_read' = TRUE
                  /\ IF button_iter < Len(button_order)
                     THEN pc' = "buttons" /\ button_iter' = button_iter + 1
                     ELSE pc' = "exit_check" /\ button_iter' = 0
                  /\ UNCHANGED <<key_state, mouse_state, error, exit_status>>
    /\ UNCHANGED <<envVars, cfgVars, joystick_open, keyVars>>

\* The exit check without the break: the loop sleeps and polls again
ExitCheck_no_break ==
    /\ pc = "exit_check"
    /\ \/ ReadFails
       \/ \E value \in {0, 1} :
               /\ reads' = <<value>>
               /\ events' = <<>>
               /\ source_read' = TRUE
               /\ pc' = "sleep"
               /\ UNCHANGED <<latchVars, button_iter, host, balance, sink_called, error,
                              exit_status, last_read>>
    /\ UNCHANGED <<envVars, cfgVars, joystick_open, keyVars>>

\* lines 310-312
ExitCheck ==
    /\ pc = "exit_check"
    /\ \/ ReadFails
       \/ \E value \in {0, 1} :
               /\ reads' = <<value>>
               /\ events' = <<>>
               /\ source_read' = TRUE
               /\ pc' = IF value = 1 THEN "finally" ELSE "sleep"
               /\ UNCHANGED <<latchVars, button_iter, host, balance, sink_called, error,
                              exit_status, last_read>>
    /\ UNCHANGED <<envVars, cfgVars, joystick_open, keyVars>>

\* line 314: time.sleep returns and the next tick begins
Sleep ==
    /\ pc = "sleep"
    /\ pc' = "left_pad"
    /\ reads' = <<>>
    /\ events' = <<>>
    /\ UNCHANGED <<envVars, cfgVars, joystick_open, latchVars, button_iter,
                   host, balance, obsVars, error, exit_status, last_read, keyVars>>

\* line 314: time.sleep is interrupted (KeyboardInterrupt)
Interrupt ==
    /\ pc = "sleep"
    /\ pc' = "finally"
    /\ error' = "KeyboardInterrupt"
    /\ reads' = <<>>
    /\ events' = <<>>
    /\ UNCHANGED <<envVars, cfgVars, joystick_open, latchVars, button_iter,
                   host, balance, obsVars, exit_status, last_read, keyVars>>

\* The cleanup without its third loop: mouse buttons are not released
finally_releases_no_mouse(ko, bo, mo) ==
    ReleaseAll(ko) \o ReleaseAll([i \in 1..Len(bo) |-> button_bindings[bo[i]]])

\* The sink calls of lines 316-324 when the three dicts yield their true
\* entries in the orders ko, bo, mo
finally_releases(ko, bo, mo) ==
    ReleaseAll(ko) \o ReleaseAll([i \in 1..Len(bo) |-> button_bindings[bo[i]]])
                   \o ReleaseAll(mo)

\* The finally block with joystick.quit() ahead of the release loops
Finally_quits_first ==
    /\ pc = "finally"
    /\ joystick_open' = FALSE
    /\ \E ko \in Orders(Held(key_state)), bo \in Orders(Held(button_state)),
          mo \in Orders(Held(mouse_state)) :
          Emit(finally_releases(ko, bo, mo))
    /\ pc' = "quit"
    /\ reads' = <<>>
    /\ UNCHANGED <<envVars, cfgVars, latchVars, button_iter,
                   source_read, error, exit_status, last_read, keyVars>>

\* lines 315-324
Finally ==
    /\ pc = "finally"
    /\ \E ko \in Orders(Held(key_state)), bo \in Orders(Held(button_state)),
          mo \in Orders(Held(mouse_state)) :
          Emit(finally_releases(ko, bo, mo))
    /\ pc' = "quit"
    /\ reads' = <<>>
    /\ UNCHANGED <<envVars, cfgVars, joystick_open, latchVars, button_iter,
                   source_read, error, exit_status, last_read, keyVars>>

\* lines 325-326, then the pending exception (if any) leaves _run_mapper
Quit ==
    /\ pc = "quit"
    /\ joystick_open' = FALSE
    /\ pc' = "stopped"
    /\ reads' = <<>>
    /\ events' = <<>>
    /\ exit_status' = sys_exit_status(error)
    /\ UNCHANGED <<envVars, cfgVars, latchVars, button_iter, host, balance, obsVars,
                   error, last_read, keyVars>>

Next ==
    \/ ListJoysticks
    \/ LoadLayout
    \/ OpenController
    \/ BuildBindings
    \/ LeftPad
    \/ RightPad
    \/ Triggers
    \/ Buttons
    \/ ExitCheck
    \/ Sleep
    \/ Interrupt
    \/ Finally
    \/ Quit

Spec == Init /\ [][Next]_vars

\* The run under the interpreter's scheduling: the finally block, once
\* entered, runs its release loops and then closes the controller
SpecLive == Spec /\ WF_vars(Finally) /\ WF_vars(Quit)

----------------------------------------------------------------------------
(* Startup alone, over every layout file that lacks one key *)

MaxJoysticks == 1

StartupLayouts ==
    {NoPath, BadFile, File(FullOverride)}
    \cup {File(Without(FullOverride, path)) : path \in AllPaths}

InitStartup ==
    InitWith("main",
             ArgSets(BOOLEAN, 0..MaxJoysticks, StartupLayouts, {18}, {45}),
             BOOLEAN, 0..MaxJoysticks, {<<>>})

NextStartup ==
    \/ ListJoysticks
    \/ LoadLayout
    \/ OpenController
    \/ BuildBindings

SpecStartup == InitStartup /\ [][NextStartup]_vars

----------------------------------------------------------------------------
(* The key resolver alone, over every short text and every spelling of the *)
(* special names                                                           *)

MaxNameLen == 2

KeyAlphabet == {"u", "U", "p", "P", "r", "R", "$"}

RECURSIVE Texts(_)
Texts(n) ==
    IF n = 0 THEN {<<>>}
    ELSE Texts(n - 1) \cup {Append(t, c) : t \in {u \in Texts(n - 1) : Len(u) = n - 1},
                                           c \in KeyAlphabet}

LowerUpper == [c \in {UpperLower[u] : u \in DOMAIN UpperLower} |->
                  CHOOSE u \in DOMAIN UpperLower : UpperLower[u] = c]

\* The spellings of a lower-case text: as is, upper case, capitalised
Spellings(t) ==
    {t, [i \in 1..Len(t) |-> LowerUpper[t[i]]],
        [i \in 1..Len(t) |-> IF i = 1 THEN LowerUpper[t[i]] ELSE t[i]]}

\* Special names with one character appended or the last one dropped
NearMisses(t) == {Append(t, "s"), SubSeq(t, 1, Len(t) - 1)}

Names ==
    Texts(MaxNameLen)
    \cup UNION {Spellings(t) : t \in DOMAIN SPECIAL_KEYS}
    \cup UNION {NearMisses(t) : t \in DOMAIN SPECIAL_KEYS}

InitKey ==
    InitWith("resolve_key", ArgSets({FALSE}, {0}, {NoPath}, {18}, {45}),
             {TRUE}, {1}, Names)

ResolveKey ==
    /\ pc = "resolve_key"
    /\ resolved' = _resolve_key(name)
    /\ pc' = "resolved"
    /\ UNCHANGED <<envVars, cfgVars, joystick_open, latchVars, button_iter,
                   reads, events, host, balance, obsVars, error, exit_status, last_read, name>>

NextKey == ResolveKey

SpecKey == InitKey /\ [][NextKey]_vars

----------------------------------------------------------------------------
(* Properties *)

\* The run went through the polling loop and its cleanup loops are done
Drained == pc \in {"quit", "stopped"} /\ source_read

NothingDown == \A i \in VirtualInputs : ~host[i]

C2_ReadErrorCleanup ==
    error = "ReadError" =>
        /\ (pc = "stopped" \/ ~joystick_open) => NothingDown
        /\ pc \in {"finally", "quit"} => joystick_open

\* C2 witness: a read failed while a key, a mouse button and a button-bound
\* key were held, and the error has left the mapper
C2_Witness ==
    /\ error = "ReadError" /\ pc = "stopped"
    /\ Held(key_state) # {} /\ Held(mouse_state) # {} /\ Held(button_state) # {}

RECURSIVE Alternates(_, _)
Alternates(h, evs) ==
    IF evs = <<>> THEN TRUE
    ELSE LET ev == Head(evs)
         IN /\ ev.op = "press" => ~h[ev.input]
            /\ ev.op = "release" => h[ev.input]
            /\ Alternates(Deliver1(h, ev), Tail(evs))

CallsFor(i, evs) == Cardinality({n \in 1..Len(evs) : evs[n].input = i})

\* The held state the program records for virtual input i
Latched(i) ==
    IF i \in AxisKeys THEN key_state[i]
    ELSE IF i \in MouseButtons THEN mouse_state[i]
    ELSE \E b \in DOMAIN button_state : button_bindings[b] = i /\ button_state[b]

\* C3: over a whole run, polling ticks and cleanup, the events injected for
\* one virtual input alternate down, up, down, ... beginning with a down; in
\* a polling step the sink is called exactly once for an input whose held
\* state changes and not at all for one whose held state does not (a
\* repeated press or release injects nothing); the cleanup calls it exactly
\* once for each held input.
C3_StrictAlternation ==
    [][/\ Alternates(host, events')
       /\ \A i \in VirtualInputs :
             CallsFor(i, events') =
                IF pc = "finally"
                THEN (IF Latched(i) THEN 1 ELSE 0)
                ELSE (IF Latched(i)' # Latched(i) THEN 1 ELSE 0)]_vars

\* C3 witness: the movement step pressed D again while D was already held
\* (x at or beyond the threshold), and nothing was injected
C3_Witness ==
    /\ pc = "right_pad" /\ left_axis.threshold = 45
    /\ reads[1] >= 45 /\ key_state[key_bindings.d]
    /\ events = <<>> /\ sink_called

KeyHeld(k) == key_state[k] /\ host[k]
KeyReleased(k) == ~key_state[k] /\ ~host[k]

Symmetry(v, negative_key, positive_key, t) ==
    /\ v >= t => KeyHeld(positive_key) /\ KeyReleased(negative_key)
    /\ v <= -t => KeyHeld(negative_key) /\ KeyReleased(positive_key)
    /\ (-t < v /\ v < t) => KeyReleased(negative_key) /\ KeyReleased(positive_key)

BothAxesSymmetric ==
    /\ Symmetry(reads[1], key_bindings.a, key_bindings.d, left_axis.threshold)
    /\ Symmetry(reads[2], key_bindings.w, key_bindings.s, left_axis.threshold)

\* C4, as stated: after the movement step read v on an axis with threshold t,
\* v >= t leaves the positive key held and the negative released, v <= -t the
\* negative held and the positive released, -t < v < t both released, for
\* every threshold.
C4_ThresholdSymmetryAnyThreshold == pc = "right_pad" => BothAxesSymmetric

\* C4, amended: the same for every threshold t > 0, whatever the latch state
\* before the tick; x drives A/D and y drives W/S independently.
C4_ThresholdSymmetry ==
    pc = "right_pad" /\ left_axis.threshold > 0 => BothAxesSymmetric

\* C4 witness: a diagonal exactly at the thresholds, x = +t and y = -t, holds
\* D and W at once
C4_Witness ==
    /\ pc = "right_pad" /\ left_axis.threshold = 45 /\ reads = <<45, -45>>
    /\ KeyHeld(key_bindings.d) /\ KeyHeld(key_bindings.w)

TriggerAgrees(button, value, threshold) ==
    /\ mouse_state[button] <=> value >= threshold
    /\ host[button] <=> value >= threshold

\* C5: a trigger's mouse button (left trigger -> Button.left, right trigger
\* -> Button.right) is held after the trigger step iff the value read on that
\* tick is >= the threshold, and the rest of the tick leaves it so.
C5_TriggerSingleThreshold ==
    [][/\ (pc = "triggers" /\ pc' = "buttons") =>
             /\ TriggerAgrees(Button("left"), reads[1], left_trigger.threshold)'
             /\ TriggerAgrees(Button("right"), reads[2], right_trigger.threshold)'
       /\ pc \in {"buttons", "exit_check"} =>
             /\ mouse_state' = mouse_state
             /\ \A b \in MouseButtons : host'[b] = host[b]]_vars

\* C5 witness: with threshold 0.5 the left trigger, held before, reads 0.3
\* and is released, while the right trigger reads exactly 0.5 and is held
C5_Witness ==
    /\ pc = "buttons" /\ button_iter = 1 /\ left_trigger.threshold = 50
    /\ reads = <<30, 50>>
    /\ events = <<Up(Button("left")), Down(Button("right"))>>
    /\ ~host[Button("left")] /\ host[Button("right")]

\* q is n / d truncated toward zero
IsTruncation(q, n, d) ==
    /\ d * abs(q) <= abs(n)
    /\ abs(n) < d * (abs(q) + 1)
    /\ q > 0 => n > 0
    /\ q < 0 => n < 0

\* C6: the look step injects a move iff (|x| >= deadzone or |y| >= deadzone)
\* and one of dx = trunc(x * sensitivity), dy = trunc(y * sensitivity) is
\* non-zero, and the move carries exactly (dx, dy); otherwise it injects
\* nothing.  Deadzone 0.08, sensitivity 18: (0.05, 0) gives no event,
\* (0.2, 0) gives the move (3, 0).
C6_DeadzoneGating ==
    pc = "triggers" =>
        LET x == reads[1]
            y == reads[2]
            sx == x * right_axis.sensitivity
            sy == y * right_axis.sensitivity
            gate == abs(x) >= right_axis.deadzone \/ abs(y) >= right_axis.deadzone
        IN /\ Len(events) <= 1
           /\ events # <<>> <=> gate /\ (abs(sx) >= 100 \/ abs(sy) >= 100)
           /\ events # <<>> =>
                 /\ events[1].op = "move"
                 /\ IsTruncation(events[1].dx, sx, 100)
                 /\ IsTruncation(events[1].dy, sy, 100)
           /\ (right_axis.deadzone = 8 /\ right_axis.sensitivity = 18) =>
                 /\ reads = <<5, 0>> => events = <<>>
                 /\ reads = <<20, 0>> => events = <<Move(3, 0)>>

\* C6 witness: deadzone 0.08, sensitivity 18, reading (-0.2, 0.05): x passes
\* the gate, dx truncates -3.6 to -3 and dy truncates 0.9 to 0
C6_Witness ==
    /\ pc = "triggers" /\ right_axis.deadzone = 8 /\ right_axis.sensitivity = 18
    /\ reads = <<-20, 5>> /\ events = <<Move(-3, 0)>>

Polling == pc \in {"left_pad", "right_pad", "triggers", "buttons", "exit_check", "sleep"}

IsOverride == args.layout.given /\ args.layout.readable

\* The keys the code looks up with d[k]
EssentialPaths ==
    InnerPaths \cup
    {<<"axes","left_pad","x">>, <<"axes","left_pad","y">>,
     <<"axes","right_pad","x">>, <<"axes","right_pad","y">>,
     <<"triggers","left">>, <<"triggers","right">>}

Lacks(paths) == \E path \in paths : path \notin args.layout.data.present

\* The index the override gives a field, or else the stated default
IndexOr(path, default) ==
    IF path \in args.layout.data.present THEN args.layout.data.index[path] ELSE default

\* C7, as stated: an override that lacks any required field (an axis, a
\* trigger, a button index or exit_button) is rejected and the mapper never
\* polls with it.
C7_PartialOverrideRejected == IsOverride /\ Lacks(LeafPaths) => ~Polling

\* C7, amended: an override that lacks axes, triggers, buttons, a pad or an
\* axis or trigger index never polls: the run fails at startup, with a lookup
\* error (KeyError) unless an earlier startup check has failed already; one
\* that lacks only exit_button or button indices is accepted when the
\* controller checks pass, with exit_button 6 and buttons a, b, x, y at 0, 1,
\* 2, 3 substituted for the missing fields.
C7_OverrideDefaults ==
    IsOverride /\ ~args.list_joysticks =>
        /\ Lacks(EssentialPaths) =>
              /\ ~Polling
              /\ pc = "stopped" => error # "none"
              /\ (pc = "stopped" /\ deps /\ args.joystick_index < count) =>
                    error = "KeyError"
        /\ (~Lacks(EssentialPaths) /\ deps /\ args.joystick_index < count) =>
              (pc = "stopped" => source_read)
        /\ Polling =>
              /\ exit_button = IndexOr(<<"exit_button">>, 6)
              /\ DOMAIN button_bindings =
                    {IndexOr(<<"buttons","a">>, 0), IndexOr(<<"buttons","b">>, 1),
                     IndexOr(<<"buttons","x">>, 2), IndexOr(<<"buttons","y">>, 3)}

\* C7 witness: an override without exit_button has entered the polling loop
\* with exit button 6
C7_Witness ==
    /\ IsOverride /\ <<"exit_button">> \notin args.layout.data.present
    /\ pc = "left_pad" /\ exit_button = 6

\* C8: every failure caused by a malformed or missing layout field happens
\* before a controller is opened, so such a run never holds a handle.
C8_LayoutFailsBeforeOpen ==
    error \in {"KeyError", "LayoutFileError"} => ~joystick_open

LayoutRejected ==
    args.layout.given /\ (~args.layout.readable \/ Lacks(EssentialPaths))

\* C9: when no controller is detected, the device index is >= the detected
\* count, or the layout is rejected, no axis or button value is ever read and
\* no key, mouse-button or mouse-move event is ever injected.
C9_StartupFailureNoPartialState ==
    (count = 0 \/ args.joystick_index >= count \/ LayoutRejected) =>
        /\ ~source_read /\ ~sink_called /\ NothingDown
        /\ ~Polling
        /\ pc = "stopped" => error # "none" \/ args.list_joysticks

\* C9 witness: the run aborted because the device index is out of range
C9_Witness ==
    /\ pc = "stopped" /\ error = "JoystickIndexOutOfRange"
    /\ count > 0 /\ args.joystick_index >= count

\* The special names of the resolver's contract and the key each stands for
ContractNames ==
    (<<"s","p","a","c","e">> :> "space") @@ (<<"e","s","c","a","p","e">> :> "esc")
 @@ (<<"e","s","c">> :> "esc") @@ (<<"e","n","t","e","r">> :> "enter")
 @@ (<<"r","e","t","u","r","n">> :> "enter") @@ (<<"t","a","b">> :> "tab")
 @@ (<<"s","h","i","f","t">> :> "shift") @@ (<<"c","t","r","l">> :> "ctrl")
 @@ (<<"c","o","n","t","r","o","l">> :> "ctrl") @@ (<<"a","l","t">> :> "alt")
 @@ (<<"l","e","f","t">> :> "left") @@ (<<"r","i","g","h","t">> :> "right")
 @@ (<<"u","p">> :> "up") @@ (<<"d","o","w","n">> :> "down")

SameIgnoringCase(t, s) ==
    /\ Len(t) = Len(s)
    /\ \A i \in 1..Len(s) :
          t[i] = s[i] \/ (s[i] \in DOMAIN LowerUpper /\ t[i] = LowerUpper[s[i]])

Matches(t) == {s \in DOMAIN ContractNames : SameIgnoringCase(t, s)}

\* C10: a text that matches a special name case-insensitively resolves to
\* that special key; any other text of exactly one character resolves to that
\* character unchanged; any other text (empty or longer) raises the error
\* naming the text; resolving touches nothing else.
C10_KeyResolverContract ==
    pc = "resolved" =>
        /\ Matches(name) # {} =>
              \A s \in Matches(name) : resolved = Returned(Key(ContractNames[s]))
        /\ (Matches(name) = {} /\ Len(name) = 1) =>
              resolved = Returned([kind |-> "KeyCode", id |-> name[1]])
        /\ (Matches(name) = {} /\ Len(name) # 1) =>
              ~resolved.ok /\ resolved.text = name
        /\ NothingDown /\ ~sink_called /\ ~source_read /\ error = "none"

\* C10 witness: "Escape", capitalised, resolved to the esc key
C10_Witness ==
    /\ pc = "resolved" /\ name = <<"E","s","c","a","p","e">>
    /\ resolved = Returned(Key("esc"))

\* C11 as stated: "space" resolves to the space key, "Esc" to the esc key,
\* "r" to the character r, and resolving "$" raises the error.
C11_ResolutionTableAsStated ==
    pc = "resolved" =>
        /\ name = <<"s","p","a","c","e">> => resolved = Returned(Key("space"))
        /\ name = <<"E","s","c">> => resolved = Returned(Key("esc"))
        /\ name = <<"r">> => resolved = Returned(KeyCode_from_char("r"))
        /\ name = <<"$">> => ~resolved.ok

\* C11: "space" resolves to the space key, "Esc" to the esc key, "r" to the
\* character r and "R" to the character R; "$", being one character long,
\* resolves to the character $; the two-character text "$$" raises the error
\* naming "$$".
C11_ResolutionTable ==
    pc = "resolved" =>
        /\ name = <<"s","p","a","c","e">> => resolved = Returned(Key("space"))
        /\ name = <<"E","s","c">> => resolved = Returned(Key("esc"))
        /\ name = <<"r">> => resolved = Returned(KeyCode_from_char("r"))
        /\ name = <<"R">> => resolved = Returned(KeyCode_from_char("R"))
        /\ name = <<"$">> => resolved = Returned(KeyCode_from_char("$"))
        /\ name = <<"$","$">> => resolved = Raised(<<"$","$">>)

\* C11 witness: "$" resolved, to a key
C11_Witness ==
    pc = "resolved" /\ name = <<"$">> /\ resolved.ok

\* C12: the loop is left without a pending exception exactly when the exit
\* button read true, and a run that ends that way exits with status 0; a run
\* that ends because no controller is attached, the joystick index is out
\* of range, the layout is unreadable or lacks a key, or a controller read
\* failed exits with a status other than 0.  The process has an exit status
\* exactly when it has stopped.
C12_ExitStatus ==
    /\ (pc = "finally" /\ reads = <<1>>) => error = "none"
    /\ (pc = "finally" /\ error = "none") => reads = <<1>>
    /\ (pc = "stopped") = (exit_status # -1)
    /\ pc = "stopped" =>
          /\ (source_read /\ error = "none") => exit_status = 0
          /\ error \in {"NoControllersDetected", "JoystickIndexOutOfRange",
                        "LayoutFileError", "KeyError", "ReadError"}
                => exit_status > 0

\* C12 witness: a run that polled, was ended by the exit button and exited
\* with status 0
C12_Witness ==
    pc = "stopped" /\ source_read /\ sink_called /\ error = "none" /\ exit_status = 0

\* A step of the polling loop that read one bound button
ButtonStep == pc = "buttons" /\ pc' \in {"buttons", "exit_check"}

\* C13: a step that reads a bound button injects a down event for its key
\* exactly when the button reads true and its previous reading was false (or
\* it was never read), an up event exactly when it reads false and its
\* previous reading was true, and nothing when the reading repeats the
\* previous one; no other step of a tick injects an event for a bound key.
C13_EdgeTriggered ==
    [][/\ ButtonStep =>
            LET button_index == button_order[button_iter]
                key == button_bindings[button_index]
                now == reads'[1] = 1
                before == last_read[button_index]
            IN /\ events' = IF now /\ ~before THEN <<Down(key)>>
                            ELSE IF ~now /\ before THEN <<Up(key)>>
                            ELSE <<>>
               /\ last_read'[button_index] = now
       /\ pc \in {"left_pad", "right_pad", "triggers", "exit_check", "sleep"} =>
            \A k \in ButtonKeys : CallsFor(k, events') = 0]_vars

\* C13 witness: the last bound button read true on this tick as on the tick
\* before, and nothing was injected for it
C13_Witness ==
    /\ pc = "exit_check" /\ reads = <<1>> /\ events = <<>>
    /\ last_read[button_order[Len(button_order)]]
    /\ host[button_bindings[button_order[Len(button_order)]]]

\* The lifecycle phase of the mapper: before the loop, in the loop, in the
\* finally block, after the run
Phase ==
    IF pc \in {"main", "open_controller", "build_bindings"} THEN "Idle"
    ELSE IF Polling THEN "Polling"
    ELSE IF pc \in {"finally", "quit"} THEN "Draining"
    ELSE "Stopped"

\* C14: a step keeps the phase or moves it from Idle to Polling, from Idle
\* to Stopped (a startup failure), from Polling to Draining or from Draining
\* to Stopped, and never otherwise; Polling is left only by the exit button
\* reading true or by an exception being raised; the controller handle is
\* released exactly on the step from Draining to Stopped, which injects
\* nothing and starts with every virtual input up on the host.
C14_LifecycleOrder ==
    [][/\ \/ Phase' = Phase
          \/ <<Phase, Phase'>> \in {<<"Idle", "Polling">>, <<"Idle", "Stopped">>,
                                    <<"Polling", "Draining">>,
                                    <<"Draining", "Stopped">>}
       /\ (Phase = "Polling" /\ Phase' # "Polling") =>
             \/ pc = "exit_check" /\ reads' = <<1>> /\ error' = "none"
             \/ error = "none" /\ error' # "none"
       /\ (Phase = "Draining" /\ Phase' = "Stopped") =>
             joystick_open /\ ~joystick_open'
       /\ (joystick_open /\ ~joystick_open') =>
             /\ Phase = "Draining" /\ Phase' = "Stopped"
             /\ pc = "quit" /\ events' = <<>>
             /\ NothingDown /\ host' = host]_vars

\* C14 witness: a run that polled, injected events, was drained and stopped
\* with the controller handle released
C14_Witness ==
    /\ Phase = "Stopped" /\ source_read /\ sink_called
    /\ ~joystick_open /\ NothingDown

\* The run has stopped with cleanup done: every virtual input is up on the
\* host and the controller handle is released
StoppedClean == pc = "stopped" /\ NothingDown /\ ~joystick_open

\* C15: the exit button is read only after the tick's movement, mouse-look,
\* trigger and button steps, in that order; when it reads true the loop ends
\* at once, with no sleep, no further tick, no event and no latch change in
\* that step; and once it has read true the run eventually stops with every
\* virtual input up on the host and the controller handle released.
C15_ExitTerminates ==
    /\ [][/\ (pc' = "right_pad" /\ pc # "right_pad") => pc = "left_pad"
          /\ (pc' = "triggers" /\ pc # "triggers") => pc = "right_pad"
          /\ (pc' = "buttons" /\ pc # "buttons") => pc = "triggers"
          /\ (pc' = "exit_check" /\ pc # "exit_check") =>
                pc = "buttons" /\ button_iter = Len(button_order)
          /\ (pc = "exit_check" /\ reads' = <<1>>) =>
                /\ pc' = "finally" /\ error' = "none" /\ events' = <<>>
                /\ UNCHANGED <<latchVars, host>>
          /\ (pc = "finally" /\ reads = <<1>>) => pc' \in {"finally", "quit"}
          /\ pc = "quit" => pc' \in {"quit", "stopped"}]_vars
    /\ (pc = "finally" /\ reads = <<1>>) ~> StoppedClean

\* C15 witness: the exit button has just read true on a tick whose steps
\* held a movement key and a mouse button
C15_Witness ==
    /\ pc = "finally" /\ reads = <<1>> /\ error = "none"
    /\ \E k \in AxisKeys : key_state[k] /\ host[k]
    /\ \E b \in MouseButtons : mouse_state[b] /\ host[b]

\* The two keys of a movement axis are not both recorded as held
Exclusive(negative_key, positive_key) ==
    ~(key_state[negative_key] /\ key_state[positive_key])

\* The loop has completed a tick: it is about to sleep, or the exit button
\* has just ended it
TickCompleted == pc = "sleep" \/ (pc = "finally" /\ reads = <<1>>)

\* C16: with a threshold above 0, when a tick has completed A and D are not
\* both latched and W and S are not both latched, whatever the axes read on
\* this tick and on the ticks before.
C16_OpposingKeysExclusive ==
    (TickCompleted /\ left_axis.threshold > 0) =>
        /\ Exclusive(key_bindings.a, key_bindings.d)
        /\ Exclusive(key_bindings.w, key_bindings.s)

\* C16 witness: a completed tick, threshold 0.45, that leaves D and W held
\* and A and S released
C16_Witness ==
    /\ pc = "sleep" /\ left_axis.threshold = 45
    /\ key_state[key_bindings.d] /\ key_state[key_bindings.w]
    /\ ~key_state[key_bindings.a] /\ ~key_state[key_bindings.s]

\* C17: while the loop runs, between any two of its steps and so at every
\* tick boundary, a virtual input is latched (its key_state, mouse_state or
\* button_state entry is true) exactly when the last call injected for it
\* was a down event, and an input that is not latched has had as many down
\* events as up events; a latched one has had one down event more.
C17_LatchAgreesWithSink ==
    Polling =>
        \A i \in VirtualInputs :
            /\ Latched(i) = host[i]
            /\ ~Latched(i) => balance[i] = 0
            /\ Latched(i) => balance[i] = 1

\* C17 witness: a tick boundary with D held, and A released after having
\* been held: its last event was an up event
C17_Witness ==
    /\ pc = "right_pad" /\ events = <<Down(key_bindings.d), Up(key_bindings.a)>>
    /\ key_state[key_bindings.d] /\ host[key_bindings.d]
    /\ ~key_state[key_bindings.a] /\ ~host[key_bindings.a]
    /\ balance[key_bindings.a] = 0 /\ balance[key_bindings.d] = 1

\* The step's sink calls put key to down before they put key from up, both
\* keys are down on the host in between, and the step ends with only key to
\* latched and down
PressedBeforeReleased(from, to) ==
    \E m, k \in 1..Len(events') :
        /\ m < k
        /\ events'[m] = Down(to)
        /\ events'[k] = Up(from)
        /\ LET h == Deliver(host, SubSeq(events', 1, m)) IN h[to] /\ h[from]
        /\ key_state'[to] /\ ~key_state'[from]
        /\ host'[to] /\ ~host'[from]

\* C18: on a movement step, if the positive key of an axis is held and the
\* axis now reads at or below minus the threshold, the down event of the
\* negative key is injected before the up event of the positive key, so both
\* are down on the host in between and only the negative key is latched when
\* the step ends; likewise from the negative key to the positive one.
C18_CrossingPressesFirst ==
    [][(pc = "left_pad" /\ pc' = "right_pad") =>
          LET t == left_axis.threshold
              Crosses(v, negative_key, positive_key) ==
                  /\ (key_state[positive_key] /\ v <= -t) =>
                        PressedBeforeReleased(positive_key, negative_key)
                  /\ (key_state[negative_key] /\ v >= t /\ ~(v <= -t)) =>
                        PressedBeforeReleased(negative_key, positive_key)
          IN /\ Crosses(reads'[1], key_bindings.a, key_bindings.d)
             /\ Crosses(reads'[2], key_bindings.w, key_bindings.s)]_vars

\* C18 witness: both axes crossed from the positive side to the negative one
\* in one step
C18_Witness ==
    /\ pc = "right_pad" /\ reads = <<-45, -45>> /\ left_axis.threshold = 45
    /\ events = <<Down(key_bindings.a), Up(key_bindings.d),
                  Down(key_bindings.w), Up(key_bindings.s)>>

\* The step leaves the virtual inputs of S alone: their latch, their state
\* on the host, and no sink call for them
Untouched(S) ==
    \A i \in S :
        /\ Latched(i)' = Latched(i)
        /\ host'[i] = host[i]
        /\ CallsFor(i, events') = 0

\* C19: the movement step leaves mouse_state, button_state and their inputs
\* alone, and a movement key that already is as its own axis reading demands
\* is left alone whatever the other axis reads; the mouse-look step changes
\* no latch and no input; the trigger step leaves key_state, button_state
\* and their inputs alone, and a mouse button that already is as its own
\* trigger reading demands is left alone; a digital-button step changes at
\* most the entry of the button it read and touches no other input.
C19_StepFrames ==
    [][/\ (pc = "left_pad" /\ pc' = "right_pad") =>
             LET t == left_axis.threshold
                 AxisFrame(v, negative_key, positive_key) ==
                     /\ key_state[negative_key] = (v <= -t)
                           => Untouched({negative_key})
                     /\ key_state[positive_key] = (~(v <= -t) /\ v >= t)
                           => Untouched({positive_key})
             IN /\ mouse_state' = mouse_state
                /\ button_state' = button_state
                /\ Untouched(MouseButtons \cup ButtonKeys)
                /\ AxisFrame(reads'[1], key_bindings.a, key_bindings.d)
                /\ AxisFrame(reads'[2], key_bindings.w, key_bindings.s)
       /\ (pc = "right_pad" /\ pc' = "triggers") =>
             /\ UNCHANGED latchVars
             /\ Untouched(VirtualInputs)
       /\ (pc = "triggers" /\ pc' = "buttons") =>
             LET TriggerFrame(v, trigger) ==
                     mouse_state[Button(trigger.button)] = (v >= trigger.threshold)
                         => Untouched({Button(trigger.button)})
             IN /\ key_state' = key_state
                /\ button_state' = button_state
                /\ Untouched(AxisKeys \cup ButtonKeys)
                /\ TriggerFrame(reads'[1], left_trigger)
                /\ TriggerFrame(reads'[2], right_trigger)
       /\ ButtonStep =>
             LET button_index == button_order[button_iter]
             IN /\ key_state' = key_state
                /\ mouse_state' = mouse_state
                /\ \A b \in DOMAIN button_state \ {button_index} :
                      button_state'[b] = button_state[b]
                /\ Untouched(VirtualInputs \ {button_bindings[button_index]})]_vars

\* C19 witness: a movement step released A while W, the left mouse button
\* and a digital button stayed held
C19_Witness ==
    /\ pc = "right_pad" /\ events = <<Up(key_bindings.a)>>
    /\ key_state[key_bindings.w] /\ host[key_bindings.w]
    /\ mouse_state[Button("left")] /\ host[Button("left")]
    /\ \E b \in DOMAIN button_state : button_state[b] /\ host[button_bindings[b]]

====
